---- MODULE Spec2Model ----
(***************************************************************************)
(* Model of package imggg (geom.go): the generic Point / Rectangle algebra *)
(* instantiated at a signed integer type wide enough that no operation     *)
(* overflows.  Every method is a pure function of its operands and is an   *)
(* operator here; the actions are calls of those methods.                  *)
(***************************************************************************)
EXTENDS Integers, FiniteSets

VARIABLES op, r, s, p, n, outR, outP, outB

vars == <<op, r, s, p, n, outR, outP, outB>>

\* ------------------------------------------------------------------ bounds

\* Rectangle coordinates range over MinCoord .. MaxCoord.  The low end is
\* negative so that negative sums (truncating division) and negative offsets
\* (the wrap of Mod) occur.
MinCoord == 0 - 1
MaxCoord == 2
\* Points handed to Mod lie up to Far beyond the coordinate range.
Far == 3
\* Inset amounts range over -MaxInset .. MaxInset.
MaxInset == 2

Coord == MinCoord..MaxCoord
FarCoord == (MinCoord - Far)..(MaxCoord + Far)
\* The rectangle algebra keeps its accumulator within AlgCoord.
AlgCoord == (MinCoord - 1)..(MaxCoord + 1)
Insets == (0 - MaxInset)..MaxInset

\* ------------------------------------------------------------------ Point

Pt(X, Y) == [X |-> X, Y |-> Y]

PointAdd(a, q) == Pt(a.X + q.X, a.Y + q.Y)

PointSub(a, q) == Pt(a.X - q.X, a.Y - q.Y)

PointIn(a, rc) ==
    /\ rc.Min.X <= a.X /\ a.X < rc.Max.X
    /\ rc.Min.Y <= a.Y /\ a.Y < rc.Max.Y

\* Go's integer "/" truncates toward zero (TLA+ \div floors).
Quo(a, b) == IF a >= 0 THEN a \div b ELSE 0 - ((0 - a) \div b)

\* ------------------------------------------------------------------ Rectangle

Rectangle(mn, mx) == [Min |-> mn, Max |-> mx]

\* Rectangle[V]{} : the zero value.
ZeroRectangle == Rectangle(Pt(0, 0), Pt(0, 0))

Dx(rc) == rc.Max.X - rc.Min.X

Dy(rc) == rc.Max.Y - rc.Min.Y

\* math.Mod's results are discarded (geom.go:72, 76): only the single
\* negative correction is applied.
PointMod(a, rc) ==
    LET w == Dx(rc)
        h == Dy(rc)
        p1 == PointSub(a, rc.Min)
        p2 == IF p1.X < 0 THEN [p1 EXCEPT !.X = @ + w] ELSE p1
        p3 == IF p2.Y < 0 THEN [p2 EXCEPT !.Y = @ + h] ELSE p2
    IN  PointAdd(p3, rc.Min)

RectangleAdd(rc, a) ==
    Rectangle(Pt(rc.Min.X + a.X, rc.Min.Y + a.Y), Pt(rc.Max.X + a.X, rc.Max.Y + a.Y))

RectangleSub(rc, a) ==
    Rectangle(Pt(rc.Min.X - a.X, rc.Min.Y - a.Y), Pt(rc.Max.X - a.X, rc.Max.Y - a.Y))

Empty(rc) == rc.Min.X >= rc.Max.X \/ rc.Min.Y >= rc.Max.Y

\* Inset without the collapse of an axis narrower than 2*k.
InsetNoCollapse(rc, k) ==
    Rectangle(Pt(rc.Min.X + k, rc.Min.Y + k), Pt(rc.Max.X - k, rc.Max.Y - k))

\* Inset whose Y branch tests the width instead of the height.
InsetTestsDxTwice(rc, k) ==
    LET mx == Quo(rc.Min.X + rc.Max.X, 2)
        r1 == IF Dx(rc) < 2 * k
              THEN [rc EXCEPT !.Min.X = mx, !.Max.X = mx]
              ELSE [rc EXCEPT !.Min.X = @ + k, !.Max.X = @ - k]
        my == Quo(r1.Min.Y + r1.Max.Y, 2)
        r2 == IF Dx(r1) < 2 * k
              THEN [r1 EXCEPT !.Min.Y = my, !.Max.Y = my]
              ELSE [r1 EXCEPT !.Min.Y = @ + k, !.Max.Y = @ - k]
    IN  r2

\* Inset whose midpoint is rounded down instead of toward zero.
InsetFloorDiv(rc, k) ==
    LET mx == (rc.Min.X + rc.Max.X) \div 2
        r1 == IF Dx(rc) < 2 * k
              THEN [rc EXCEPT !.Min.X = mx, !.Max.X = mx]
              ELSE [rc EXCEPT !.Min.X = @ + k, !.Max.X = @ - k]
        my == (r1.Min.Y + r1.Max.Y) \div 2
        r2 == IF Dy(r1) < 2 * k
              THEN [r1 EXCEPT !.Min.Y = my, !.Max.Y = my]
              ELSE [r1 EXCEPT !.Min.Y = @ + k, !.Max.Y = @ - k]
    IN  r2

Inset(rc, k) ==
    LET mx == Quo(rc.Min.X + rc.Max.X, 2)
        r1 == IF Dx(rc) < 2 * k
              THEN [rc EXCEPT !.Min.X = mx, !.Max.X = mx]
              ELSE [rc EXCEPT !.Min.X = @ + k, !.Max.X = @ - k]
        my == Quo(r1.Min.Y + r1.Max.Y, 2)
        r2 == IF Dy(r1) < 2 * k
              THEN [r1 EXCEPT !.Min.Y = my, !.Max.Y = my]
              ELSE [r1 EXCEPT !.Min.Y = @ + k, !.Max.Y = @ - k]
    IN  r2

\* Intersect that returns the computed bounds even when they are empty.
IntersectNoZero(rc, sc) ==
    LET r1 == IF rc.Min.X < sc.Min.X THEN [rc EXCEPT !.Min.X = sc.Min.X] ELSE rc
        r2 == IF r1.Min.Y < sc.Min.Y THEN [r1 EXCEPT !.Min.Y = sc.Min.Y] ELSE r1
        r3 == IF r2.Max.X > sc.Max.X THEN [r2 EXCEPT !.Max.X = sc.Max.X] ELSE r2
        r4 == IF r3.Max.Y > sc.Max.Y THEN [r3 EXCEPT !.Max.Y = sc.Max.Y] ELSE r3
    IN  r4

\* Intersect that forgets to clamp Max.Y.
IntersectNoClampMaxY(rc, sc) ==
    LET r1 == IF rc.Min.X < sc.Min.X THEN [rc EXCEPT !.Min.X = sc.Min.X] ELSE rc
        r2 == IF r1.Min.Y < sc.Min.Y THEN [r1 EXCEPT !.Min.Y = sc.Min.Y] ELSE r1
        r3 == IF r2.Max.X > sc.Max.X THEN [r2 EXCEPT !.Max.X = sc.Max.X] ELSE r2
    IN  IF Empty(r3) THEN ZeroRectangle ELSE r3

Intersect(rc, sc) ==
    LET r1 == IF rc.Min.X < sc.Min.X THEN [rc EXCEPT !.Min.X = sc.Min.X] ELSE rc
        r2 == IF r1.Min.Y < sc.Min.Y THEN [r1 EXCEPT !.Min.Y = sc.Min.Y] ELSE r1
        r3 == IF r2.Max.X > sc.Max.X THEN [r2 EXCEPT !.Max.X = sc.Max.X] ELSE r2
        r4 == IF r3.Max.Y > sc.Max.Y THEN [r3 EXCEPT !.Max.Y = sc.Max.Y] ELSE r3
    IN  IF Empty(r4) THEN ZeroRectangle ELSE r4

\* Componentwise widest bound, with no test for an empty operand.
Widest(rc, sc) ==
    LET r1 == IF rc.Min.X > sc.Min.X THEN [rc EXCEPT !.Min.X = sc.Min.X] ELSE rc
        r2 == IF r1.Min.Y > sc.Min.Y THEN [r1 EXCEPT !.Min.Y = sc.Min.Y] ELSE r1
        r3 == IF r2.Max.X < sc.Max.X THEN [r2 EXCEPT !.Max.X = sc.Max.X] ELSE r2
        r4 == IF r3.Max.Y < sc.Max.Y THEN [r3 EXCEPT !.Max.Y = sc.Max.Y] ELSE r3
    IN  r4

\* Union without the test of s.Empty().
UnionSkipsEmptyArgument(rc, sc) ==
    IF Empty(rc) THEN sc ELSE Widest(rc, sc)

\* Union without the test of r.Empty().
UnionSkipsEmptyReceiver(rc, sc) ==
    IF Empty(sc) THEN rc ELSE Widest(rc, sc)

Union(rc, sc) ==
    IF Empty(rc) THEN sc
    ELSE IF Empty(sc) THEN rc
    ELSE
      LET r1 == IF rc.Min.X > sc.Min.X THEN [rc EXCEPT !.Min.X = sc.Min.X] ELSE rc
          r2 == IF r1.Min.Y > sc.Min.Y THEN [r1 EXCEPT !.Min.Y = sc.Min.Y] ELSE r1
          r3 == IF r2.Max.X < sc.Max.X THEN [r2 EXCEPT !.Max.X = sc.Max.X] ELSE r2
          r4 == IF r3.Max.Y < sc.Max.Y THEN [r3 EXCEPT !.Max.Y = sc.Max.Y] ELSE r3
      IN  r4

\* Eq as plain structural equality.
RectangleEqStructural(rc, sc) == rc = sc

RectangleEq(rc, sc) == rc = sc \/ (Empty(rc) /\ Empty(sc))

Overlaps(rc, sc) ==
    /\ ~Empty(rc) /\ ~Empty(sc)
    /\ rc.Min.X < sc.Max.X /\ sc.Min.X < rc.Max.X
    /\ rc.Min.Y < sc.Max.Y /\ sc.Min.Y < rc.Max.Y

\* In without the early return for an empty r.
RectangleInNoEmptyCase(rc, sc) ==
    /\ sc.Min.X <= rc.Min.X /\ rc.Max.X <= sc.Max.X
    /\ sc.Min.Y <= rc.Min.Y /\ rc.Max.Y <= sc.Max.Y

RectangleIn(rc, sc) ==
    IF Empty(rc) THEN TRUE
    ELSE /\ sc.Min.X <= rc.Min.X /\ rc.Max.X <= sc.Max.X
         /\ sc.Min.Y <= rc.Min.Y /\ rc.Max.Y <= sc.Max.Y

Canon(rc) ==
    LET r1 == IF rc.Max.X < rc.Min.X
              THEN [rc EXCEPT !.Min.X = rc.Max.X, !.Max.X = rc.Min.X] ELSE rc
        r2 == IF r1.Max.Y < r1.Min.Y
              THEN [r1 EXCEPT !.Min.Y = r1.Max.Y, !.Max.Y = r1.Min.Y] ELSE r1
    IN  r2

Rect(x0, y0, x1, y1) ==
    LET a0 == IF x0 > x1 THEN x1 ELSE x0
        a1 == IF x0 > x1 THEN x0 ELSE x1
        b0 == IF y0 > y1 THEN y1 ELSE y0
        b1 == IF y0 > y1 THEN y0 ELSE y1
    IN  Rectangle(Pt(a0, b0), Pt(a1, b1))

\* ------------------------------------------------------------------ inputs

Points == { Pt(x, y) : x \in Coord, y \in Coord }
FarPoints == { Pt(x, y) : x \in FarCoord, y \in FarCoord }

\* Every struct literal Rectangle{Min, Max}: well-formed or not.
Rectangles == { Rectangle(a, b) : a \in Points, b \in Points }

WellFormed(rc) == rc.Min.X <= rc.Max.X /\ rc.Min.Y <= rc.Max.Y

\* The rectangle and amount of the documented scenario Rect(0,0,10,10).Inset(6).
ScenarioRect == Rect(0, 0, 10, 10)
ScenarioInsets == {6}
\* The empty rectangle of the documented scenario Rect(5,5,5,5) == zero rectangle.
ScenarioEmpty == Rect(5, 5, 5, 5)

NoPoint == Pt(0, 0)

\* ------------------------------------------------------------------ calls

Init ==
    /\ op = "idle"
    /\ r = ZeroRectangle /\ s = ZeroRectangle
    /\ p = NoPoint /\ n = 0
    /\ outR = ZeroRectangle /\ outP = NoPoint /\ outB = FALSE

CallMod ==
    /\ op = "idle"
    /\ \E a \in FarPoints, rc \in Rectangles :
         /\ op' = "Mod" /\ p' = a /\ r' = rc
         /\ outP' = PointMod(a, rc)
    /\ UNCHANGED <<s, n, outR, outB>>

CallInset ==
    /\ op = "idle"
    /\ \E rc \in Rectangles \cup {ScenarioRect}, k \in Insets \cup ScenarioInsets :
         /\ op' = "Inset" /\ r' = rc /\ n' = k
         /\ outR' = Inset(rc, k)
    /\ UNCHANGED <<s, p, outP, outB>>

CallIntersect ==
    /\ op = "idle"
    /\ \E rc \in Rectangles, sc \in Rectangles :
         /\ op' = "Intersect" /\ r' = rc /\ s' = sc
         /\ outR' = Intersect(rc, sc)
    /\ UNCHANGED <<p, n, outP, outB>>

CallUnion ==
    /\ op = "idle"
    /\ \E rc \in Rectangles, sc \in Rectangles :
         /\ op' = "Union" /\ r' = rc /\ s' = sc
         /\ outR' = Union(rc, sc)
    /\ UNCHANGED <<p, n, outP, outB>>

CallEq ==
    /\ op = "idle"
    /\ \E rc \in Rectangles \cup {ScenarioEmpty}, sc \in Rectangles :
         /\ op' = "Eq" /\ r' = rc /\ s' = sc
         /\ outB' = RectangleEq(rc, sc)
    /\ UNCHANGED <<p, n, outP, outR>>

CallOverlaps ==
    /\ op = "idle"
    /\ \E rc \in Rectangles, sc \in Rectangles :
         /\ op' = "Overlaps" /\ r' = rc /\ s' = sc
         /\ outB' = Overlaps(rc, sc)
    /\ UNCHANGED <<p, n, outP, outR>>

CallIn ==
    /\ op = "idle"
    /\ \E rc \in Rectangles, sc \in Rectangles :
         /\ op' = "In" /\ r' = rc /\ s' = sc
         /\ outB' = RectangleIn(rc, sc)
    /\ UNCHANGED <<p, n, outP, outR>>

\* The call returns; the values are locals of the caller and go out of scope.
Return ==
    /\ op # "idle"
    /\ op' = "idle"
    /\ r' = ZeroRectangle /\ s' = ZeroRectangle
    /\ p' = NoPoint /\ n' = 0
    /\ outR' = ZeroRectangle /\ outP' = NoPoint /\ outB' = FALSE

Next ==
    \/ CallMod
    \/ CallInset
    \/ CallIntersect
    \/ CallUnion
    \/ CallEq
    \/ CallOverlaps
    \/ CallIn
    \/ Return

Spec == Init /\ [][Next]_vars

\* ------------------------------------------------------------------ algebra
\* A rectangle built by Rect and then transformed by a sequence of methods,
\* each applied to the result of the one before.  r is the current rectangle,
\* op the method that produced it, n the amount of the last Inset.

WellFormedRectangles == { Rect(x0, y0, x1, y1) : x0 \in Coord, y0 \in Coord, x1 \in Coord, y1 \in Coord }

\* No coordinate leaves AlgCoord (keeps the reachable set finite; says nothing
\* about the order of Min and Max).
InAlgRange(rc) ==
    /\ rc.Min.X \in AlgCoord /\ rc.Max.X \in AlgCoord
    /\ rc.Min.Y \in AlgCoord /\ rc.Max.Y \in AlgCoord

AlgInit ==
    /\ op = "Rect"
    /\ \E x0 \in Coord, y0 \in Coord, x1 \in Coord, y1 \in Coord : r = Rect(x0, y0, x1, y1)
    /\ s = ZeroRectangle /\ p = NoPoint /\ n = 0
    /\ outR = ZeroRectangle /\ outP = NoPoint /\ outB = FALSE

AlgAdd ==
    /\ \E a \in Points :
         /\ InAlgRange(RectangleAdd(r, a))
         /\ op' = "Add" /\ r' = RectangleAdd(r, a) /\ n' = 0
    /\ UNCHANGED <<s, p, outR, outP, outB>>

AlgSub ==
    /\ \E a \in Points :
         /\ InAlgRange(RectangleSub(r, a))
         /\ op' = "Sub" /\ r' = RectangleSub(r, a) /\ n' = 0
    /\ UNCHANGED <<s, p, outR, outP, outB>>

AlgInset ==
    /\ \E k \in Insets :
         /\ InAlgRange(Inset(r, k))
         /\ op' = "Inset" /\ r' = Inset(r, k) /\ n' = k
    /\ UNCHANGED <<s, p, outR, outP, outB>>

AlgIntersect ==
    /\ \E sc \in WellFormedRectangles :
         /\ InAlgRange(Intersect(r, sc))
         /\ op' = "Intersect" /\ r' = Intersect(r, sc) /\ n' = 0
    /\ UNCHANGED <<s, p, outR, outP, outB>>

AlgUnion ==
    /\ \E sc \in WellFormedRectangles :
         /\ InAlgRange(Union(r, sc))
         /\ op' = "Union" /\ r' = Union(r, sc) /\ n' = 0
    /\ UNCHANGED <<s, p, outR, outP, outB>>

AlgCanon ==
    /\ InAlgRange(Canon(r))
    /\ op' = "Canon" /\ r' = Canon(r) /\ n' = 0
    /\ UNCHANGED <<s, p, outR, outP, outB>>

AlgNext ==
    \/ AlgAdd
    \/ AlgSub
    \/ AlgInset
    \/ AlgIntersect
    \/ AlgUnion
    \/ AlgCanon

AlgSpec == AlgInit /\ [][AlgNext]_vars

\* ------------------------------------------------------------------ claims

NonEmpty(rc) == rc.Min.X < rc.Max.X /\ rc.Min.Y < rc.Max.Y

Max2(a, b) == IF a >= b THEN a ELSE b
Min2(a, b) == IF a <= b THEN a ELSE b

\* m is a / 2 truncated toward zero.
IsTruncHalf(m, a) ==
    IF a >= 0 THEN 2 * m <= a /\ a <= 2 * m + 1
    ELSE 2 * m - 1 <= a /\ a <= 2 * m

\* The rectangles with corners in 0..1: third operands for transitivity.
UnitPoints == { Pt(x, y) : x \in 0..1, y \in 0..1 }
UnitRectangles == { Rectangle(a, b) : a \in UnitPoints, b \in UnitPoints }

\* C1: for every point p and every non-empty rectangle r, q = p.Mod(r) lies in
\* r, and p.X - q.X is a multiple of r.Dx() and p.Y - q.Y a multiple of
\* r.Dy(), however far p is from r.
C1_ModWrapsIntoRect ==
    (op = "Mod" /\ NonEmpty(r)) =>
        /\ PointIn(outP, r)
        /\ (p.X - outP.X) % Dx(r) = 0
        /\ (p.Y - outP.Y) % Dy(r) = 0

\* C2: every rectangle built by Rect, and every rectangle obtained from one by
\* any sequence of Add, Sub, Inset (either sign), Intersect, Union and Canon
\* with well-formed operands, is well-formed.
C2_WellFormedPreserved == WellFormed(r)

C2_Witness ==
    /\ op = "Inset" /\ n > 0
    /\ Dx(r) = 0 /\ Dy(r) > 0

\* C3 (as stated): for every rectangle r and every empty rectangle e,
\* r.Union(e) and e.Union(r) both return r structurally unchanged.
C3_UnionEmptyReturnsReceiver ==
    (op = "Union" /\ Empty(s)) => (outR = r /\ Union(s, r) = r)

\* C3 (amended): for every rectangle r and every empty rectangle e, e.Union(r)
\* returns r unchanged; r.Union(e) returns r unchanged when r is non-empty and
\* returns e when r is itself empty, a result that is Eq to r.
C3_UnionWithEmpty ==
    op = "Union" =>
        /\ Empty(r) => outR = s
        /\ (Empty(s) /\ ~Empty(r)) => outR = r
        /\ (Empty(s) /\ Empty(r)) => RectangleEq(outR, r)

C3_Witness ==
    /\ op = "Union" /\ Empty(r) /\ Empty(s) /\ r # s
    /\ outR = s

\* C4 (as stated): r.Union(s) has exactly the same Min and Max as s.Union(r)
\* for all rectangles r and s, empty and ill-formed ones included.
C4_UnionCommutesStructurally ==
    op = "Union" => outR = Union(s, r)

\* C4 (amended): r.Union(s) and s.Union(r) have the same Min and Max whenever
\* r or s is non-empty; when both are empty r.Union(s) is s and s.Union(r) is
\* r, so the two results are Eq but differ structurally when r and s do.
C4_UnionCommutes ==
    op = "Union" =>
        /\ ~(Empty(r) /\ Empty(s)) => outR = Union(s, r)
        /\ (Empty(r) /\ Empty(s)) => (outR = s /\ Union(s, r) = r)
        /\ RectangleEq(outR, Union(s, r))

C4_Witness ==
    /\ op = "Union" /\ ~Empty(r) /\ ~Empty(s)
    /\ outR # r /\ outR # s

\* C5: r.Intersect(s) has exactly the same Min and Max as s.Intersect(r) for
\* all rectangles r and s, empty and ill-formed ones included.
C5_IntersectCommutes ==
    op = "Intersect" => outR = Intersect(s, r)

C5_Witness ==
    /\ op = "Intersect" /\ ~Empty(outR)
    /\ outR # r /\ outR # s

\* C6 (as stated): r.Inset(0) returns r structurally unchanged for every
\* rectangle r, well-formed or not.
C6_InsetZeroIdentity ==
    (op = "Inset" /\ n = 0) => outR = r

\* C6 (amended): r.Inset(0) returns r structurally unchanged exactly when r is
\* well-formed; for an ill-formed r each inverted axis collapses to its
\* midpoint, and the result is still Eq to r.
C6_InsetZero ==
    (op = "Inset" /\ n = 0) =>
        /\ outR = r <=> WellFormed(r)
        /\ RectangleEq(outR, r)

C6_Witness ==
    /\ op = "Inset" /\ n = 0
    /\ WellFormed(r) /\ ~Empty(r) /\ outR = r

\* C7: if r.Overlaps(s) is false, r.Intersect(s) is exactly the zero
\* rectangle; if it is true, r.Intersect(s) is non-empty with Min the per-axis
\* max of the Mins and Max the per-axis min of the Maxes.  Hence Overlaps(r,s)
\* holds iff Intersect(r,s) is non-empty.
C7_IntersectVsOverlaps ==
    /\ op = "Intersect" =>
          IF Overlaps(r, s)
          THEN /\ ~Empty(outR)
               /\ outR.Min = Pt(Max2(r.Min.X, s.Min.X), Max2(r.Min.Y, s.Min.Y))
               /\ outR.Max = Pt(Min2(r.Max.X, s.Max.X), Min2(r.Max.Y, s.Max.Y))
          ELSE outR = ZeroRectangle
    /\ op = "Overlaps" => (outB <=> ~Empty(Intersect(r, s)))

C7_Witness ==
    /\ op = "Intersect" /\ ~Empty(r) /\ ~Empty(s) /\ ~Overlaps(r, s)
    /\ r.Min # s.Max /\ s.Min # r.Max
    /\ outR = ZeroRectangle

\* C8: r.In(s) is true iff every point p with p.In(r) also has p.In(s); an
\* empty r is In every s, and a non-empty r whose Max equals s.Max is In s
\* although r.Max is not a point of s.
C8_InIsPointwise ==
    op = "In" =>
        /\ outB <=> (\A a \in Points : PointIn(a, r) => PointIn(a, s))
        /\ Empty(r) => outB

C8_Witness ==
    /\ op = "In" /\ ~Empty(r) /\ r.Max = s.Max /\ r # s
    /\ outB /\ ~PointIn(r.Max, s)

\* C9: r.Eq(s) is true iff every point p has p.In(r) = p.In(s); equivalently
\* iff r and s are structurally identical or both empty; Eq is reflexive,
\* symmetric and transitive.
C9_EqIsPointSetEquality ==
    op = "Eq" =>
        /\ outB <=> (\A a \in Points : PointIn(a, r) <=> PointIn(a, s))
        /\ outB <=> (r = s \/ (Empty(r) /\ Empty(s)))
        /\ RectangleEq(r, r) /\ RectangleEq(s, s)
        /\ outB <=> RectangleEq(s, r)
        /\ \A t \in UnitRectangles : (outB /\ RectangleEq(s, t)) => RectangleEq(r, t)

C9_Witness ==
    /\ op = "Eq" /\ r = ScenarioEmpty /\ s = ZeroRectangle
    /\ outB

\* C10: for well-formed r, Inset treats each axis on its own: an axis whose
\* extent is less than 2*n collapses to (Min+Max)/2 truncated toward zero, a
\* coordinate within the original [Min, Max], and the result is empty; any other
\* axis becomes [Min+n, Max-n].  For n <= 0 no axis collapses and
\* r.Inset(n).Inset(-n) is r; Rect(0,0,10,10).Inset(6) is Rect(5,5,5,5).
C10_InsetPerAxis ==
    (op = "Inset" /\ WellFormed(r)) =>
        /\ IF Dx(r) < 2 * n
           THEN /\ outR.Min.X = outR.Max.X
                /\ IsTruncHalf(outR.Min.X, r.Min.X + r.Max.X)
                /\ r.Min.X <= outR.Min.X /\ outR.Min.X <= r.Max.X
                /\ Empty(outR)
           ELSE outR.Min.X = r.Min.X + n /\ outR.Max.X = r.Max.X - n
        /\ IF Dy(r) < 2 * n
           THEN /\ outR.Min.Y = outR.Max.Y
                /\ IsTruncHalf(outR.Min.Y, r.Min.Y + r.Max.Y)
                /\ r.Min.Y <= outR.Min.Y /\ outR.Min.Y <= r.Max.Y
                /\ Empty(outR)
           ELSE outR.Min.Y = r.Min.Y + n /\ outR.Max.Y = r.Max.Y - n
        /\ n <= 0 =>
             /\ Dx(r) >= 2 * n /\ Dy(r) >= 2 * n
             /\ Inset(outR, 0 - n) = r
        /\ (r = ScenarioRect /\ n = 6) => outR = Rect(5, 5, 5, 5)

C10_Witness ==
    /\ op = "Inset" /\ WellFormed(r)
    /\ Dx(r) < 2 * n /\ Dy(r) >= 2 * n
    /\ r.Min.X + r.Max.X < 0 /\ (r.Min.X + r.Max.X) % 2 = 1
    /\ outR.Min.X = outR.Max.X

====
